---- MODULE Spec2Model ----
(***************************************************************************)
(* A model of jira_commits_report.py: the report run of main(), the        *)
(* concurrent batch fetch of get_issues_data, the key extraction of        *)
(* get_commits_issues and the CSV escaping of sanitize.                    *)
(*                                                                         *)
(* Python values are modelled as follows.  A str is a sequence of          *)
(* one-character strings wrapped in a record, Str(<<"A", "B">>); None is   *)
(* the record None; a dict is a record (a function on its keys), so that   *)
(* `k in d` is k \in DOMAIN d; a list is a sequence.                       *)
(*                                                                         *)
(* Left out, as nothing below depends on them: the logging calls, the      *)
(* Basic-auth header of lines 50-54, the --type/--from/--to arguments that *)
(* only change git's command line, and failures of open() in write.        *)
(***************************************************************************)
EXTENDS Integers, Sequences, FiniteSets, TLC

VARIABLES
    \* main(): the run of one report
    args,          \* the parsed command line
    pc,            \* main's position
    repo_i,        \* index into args.repo_path of the for loop of line 211
    commits,       \* main's list `commits`
    e,             \* the exception caught at line 214, None before
    issue_keys,    \* main's list `issue_keys`
    tasks,         \* the futures of __get_all_issues_data, in issue order
    batch,         \* get_issues_data: not called, gathering, returned, raised
    requests,      \* the URLs requested from the tracker so far
    issues,        \* main's list `issues`
    issue_i,       \* index into `issues` of the for loop of line 226
    stdout,        \* lines printed to standard output
    report_file,   \* lines appended to args.file
    stderr,        \* lines printed to the error stream
    exit_code,     \* <<c>> once main has returned c, <<>> before
    \* sanitize(text), called on its own
    text,
    sanitized,
    \* get_commits_issues(project, commit_list), called on its own
    project,
    commit_list,
    extracted,
    \* one batch seen through the connection pool: how many requests are in
    \* each position
    pool_batch,
    pool_n,
    pool_waiting,
    pool_holding,
    pool_done,
    pool_raised

main_vars == <<args, pc, repo_i, commits, e, issue_keys, tasks, batch, requests,
               issues, issue_i, stdout, report_file, stderr, exit_code>>
sanitize_vars == <<text, sanitized>>
extract_vars == <<project, commit_list, extracted>>
pool_vars == <<pool_batch, pool_n, pool_waiting, pool_holding, pool_done,
               pool_raised>>
vars == <<main_vars, sanitize_vars, extract_vars, pool_vars>>

\* What a step of one part of the program leaves alone.
MainFrame == UNCHANGED <<sanitize_vars, extract_vars, pool_vars>>
SanitizeFrame == UNCHANGED <<main_vars, extract_vars, pool_vars>>
ExtractFrame == UNCHANGED <<main_vars, sanitize_vars, pool_vars>>
PoolFrame == UNCHANGED <<main_vars, sanitize_vars, extract_vars>>

(***************************************************************************)
(* Bounds of the model.                                                    *)
(***************************************************************************)
MaxLogLines == 2
MaxTextLen == 4
MaxCommits == 2
MaxTokens == 2
MaxBatch == 52

(***************************************************************************)
(* Python values and strings.                                              *)
(***************************************************************************)
None == [none |-> TRUE]
Unset == [unset |-> TRUE]
Str(s) == [str |-> s]

DQ == "\""
Digits == {"0", "1", "2", "3", "4", "5", "6", "7", "8", "9"}

\* '{}'.format(v): a str as it is, None as the text None.
Format(v) == IF v = None THEN <<"N", "o", "n", "e">> ELSE v.str

RECURSIVE Concat(_)
Concat(ss) == IF ss = <<>> THEN <<>> ELSE Head(ss) \o Concat(Tail(ss))

StartsWithAt(s, i, w) ==
    /\ i + Len(w) - 1 <= Len(s)
    /\ SubSeq(s, i, i + Len(w) - 1) = w

\* str.replace(old, new) for a non-empty old: the occurrences of old are found
\* from the left, without overlap, and each is replaced by new.
RECURSIVE ReplaceFrom(_, _, _, _)
ReplaceFrom(s, i, old, new) ==
    IF i > Len(s) THEN <<>>
    ELSE IF StartsWithAt(s, i, old)
         THEN new \o ReplaceFrom(s, i + Len(old), old, new)
         ELSE <<s[i]>> \o ReplaceFrom(s, i + 1, old, new)

replace(s, old, new) == ReplaceFrom(s, 1, old, new)

(***************************************************************************)
(* sanitize, lines 160-165.                                                *)
(***************************************************************************)
sanitize_first_only(v) ==
    IF v = None THEN None
    ELSE LET s == v.str
             hit == {i \in 1..Len(s) : s[i] = DQ}
         IN  IF hit = {} THEN v
             ELSE LET i == CHOOSE j \in hit : \A k \in hit : j <= k
                  IN  Str(SubSeq(s, 1, i) \o <<DQ>> \o SubSeq(s, i + 1, Len(s)))

sanitize(v) ==
    IF v = None THEN None
    ELSE Str(replace(v.str, <<DQ>>, <<DQ, DQ>>))

(***************************************************************************)
(* get_issue_regex and get_commits_issues, lines 24-26 and 84-94.          *)
(* `project_alts` is the alternation '|'.join(args.project) as the list of *)
(* its alternatives.  re.match of '^.*(?P<issue_key>(P1|P2)-[0-9]+).*$':   *)
(* the leading .* is greedy, so the prefix is tried from the longest to    *)
(* the empty one; at each prefix the alternatives are tried in order, then *)
(* '-' and one or more digits, as many as there are; the trailing .*$      *)
(* takes the rest of the (one-line) message.                               *)
(***************************************************************************)
RECURSIVE DigitRun(_, _)
DigitRun(s, i) ==
    IF i <= Len(s) /\ s[i] \in Digits THEN 1 + DigitRun(s, i + 1) ELSE 0

\* The text matched by (P1|P2)-[0-9]+ right after a prefix of length p; <<>>
\* when it does not match there.
RECURSIVE KeyAt(_, _, _)
KeyAt(project_alts, s, p) ==
    IF project_alts = <<>> THEN <<>>
    ELSE LET alt == Head(project_alts)
             d == p + Len(alt) + 1
         IN  IF /\ StartsWithAt(s, p + 1, alt)
                /\ d <= Len(s)
                /\ s[d] = "-"
                /\ DigitRun(s, d + 1) >= 1
             THEN SubSeq(s, p + 1, d + DigitRun(s, d + 1))
             ELSE KeyAt(Tail(project_alts), s, p)

RECURSIVE MatchFromPrefix(_, _, _)
MatchFromPrefix(project_alts, s, p) ==
    IF p < 0 THEN <<>>
    ELSE IF KeyAt(project_alts, s, p) # <<>> THEN KeyAt(project_alts, s, p)
    ELSE MatchFromPrefix(project_alts, s, p - 1)

\* issue_match.group('issue_key'), <<>> when re.match returns None.
issue_match(project_alts, comment) ==
    MatchFromPrefix(project_alts, comment, Len(comment))

\* The set `issues` at line 94, before list() orders it.
get_commits_issues(project_alts, commit_lst) ==
    {issue_match(project_alts, commit_lst[i].comment) :
        i \in {j \in 1..Len(commit_lst) :
                  issue_match(project_alts, commit_lst[j].comment) # <<>>}}

\* list(a set): its elements once each, in an order the program does not choose.
ListsOf(S) ==
    {l \in [1..Cardinality(S) -> S] : \A x \in S : \E i \in DOMAIN l : l[i] = x}

(***************************************************************************)
(* Program constants.                                                      *)
(***************************************************************************)
LIMIT_REQUESTS == 50

HEADER ==
    <<"\"", "k", "e", "y", "\"", ",", "\"", "i", "s", "s", "u", "e", "_", "t",
      "y", "p", "e", "\"", ",", "\"", "s", "u", "m", "m", "a", "r", "y", "\"",
      ",", "\"", "s", "t", "a", "t", "u", "s", "\"", ",", "\"", "r", "e", "s",
      "o", "l", "u", "t", "i", "o", "n", "\"", ",", "\"", "r", "e", "s", "o",
      "l", "u", "t", "i", "o", "n", "_", "d", "a", "t", "e", "\"", ",", "\"",
      "u", "r", "l", "\"">>

get_issue_url(jira_url, issue_key) ==
    jira_url \o <<"/", "b", "r", "o", "w", "s", "e", "/">> \o issue_key

get_api_url(jira_url) ==
    jira_url \o <<"/", "r", "e", "s", "t", "/", "a", "p", "i", "/", "2">>

\* issue_url of line 67.
issue_api_url(jira_url, issue_key) ==
    get_api_url(jira_url) \o <<"/", "i", "s", "s", "u", "e", "/">> \o issue_key

(***************************************************************************)
(* The environment: command lines, git log runs, tracker responses.        *)
(***************************************************************************)
JiraServer == <<"h", "t", "t", "p", ":", "/", "/", "j">>

ArgsSet ==
    [repo_path : {<<".">>, <<"r1", "r2">>},
     project : {<<<<"A", "B", "C">>>>},
     file : {None, Str(<<"o", "u", "t">>)},
     jira_server : {JiraServer}]

LogLines ==
    {<<"a", "1", " ", "A", "B", "C", "-", "1", ":", " ", "f", "i", "x", " ",
       "b", "u", "g">>,
     <<"b", "2", " ", "u", "n", "r", "e", "l", "a", "t", "e", "d", " ", "c",
       "h", "a", "n", "g", "e">>,
     <<"c", "3", " ", "A", "B", "C", "-", "2">>,
     <<"b", "a", "d", "l", "i", "n", "e">>}

SeqsUpTo(S, n) == UNION {[1..k -> S] : k \in 0..n}

\* What running `git log` in one repository can do: Popen fails; git exits
\* non-zero; git exits zero with some lines on its output.
GitRuns ==
    {[popen |-> "OSError"]}
    \cup {[popen |-> "ok", returncode |-> 128, out |-> <<>>]}
    \cup {[popen |-> "ok", returncode |-> 0, out |-> o] :
             o \in SeqsUpTo(LogLines, MaxLogLines)}

Exception(name) == [exc |-> name]

\* re.match('^(?P<commit>[^ ]+) (?P<comment>.*)$', line): None when the line
\* has no space or starts with one.
LogLineMatches(line) ==
    \E k \in 2..Len(line) : line[k] = " " /\ \A j \in 1..(k - 1) : line[j] # " "

LogLineGroupdict(line) ==
    LET k == CHOOSE j \in 2..Len(line) : line[j] = " " /\ \A i \in 1..(j - 1) : line[i] # " "
    IN  [commit |-> SubSeq(line, 1, k - 1), comment |-> SubSeq(line, k + 1, Len(line))]

\* __call_git_log, lines 106-126: [raised |-> exception] or [returned |-> commits].
call_git_log(run) ==
    IF run.popen # "ok" THEN [raised |-> Exception("OSError")]
    ELSE IF run.returncode # 0 THEN [raised |-> Exception("RuntimeError")]
    ELSE IF \E i \in 1..Len(run.out) : ~LogLineMatches(run.out[i])
         THEN [raised |-> Exception("AttributeError")]
    ELSE [returned |-> [i \in 1..Len(run.out) |-> LogLineGroupdict(run.out[i])]]

\* The body of a tracker issue, as response.json() returns it.
IssueBodies(issue_key) ==
    {[key |-> Str(issue_key),
      fields |-> [issuetype |-> [name |-> Str(<<"B", "u", "g">>)],
                  summary |-> Str(<<"F", "i", "x", " ", "\"", "x", "\"">>),
                  status |-> [name |-> Str(<<"O", "p", "e", "n">>)],
                  resolution |-> None,
                  resolutiondate |-> None]],
     [key |-> Str(issue_key),
      fields |-> [issuetype |-> [name |-> Str(<<"B", "u", "g">>)],
                  summary |-> Str(<<"d", "o", "c", "s">>),
                  status |-> [name |-> Str(<<"D", "o", "n", "e">>)],
                  resolution |-> [name |-> Str(<<"F", "i", "x", "e", "d">>)],
                  resolutiondate |-> Str(<<"2", "0", "2", "0">>)]]}

\* The tracker's error body, sent with status 200.
ErrorMessagesBody ==
    [errorMessages |-> <<Str(<<"N", "o", " ", "i", "s", "s", "u", "e", ".">>)>>,
     errors |-> <<>>]

ErrorStatuses == {404, 500}

\* The responses the tracker can give to the request for one key.  A body is
\* [json |-> value] when it parses and [malformed |-> TRUE] when it does not.
Responses(issue_key) ==
    {[status |-> 200, body |-> [json |-> b]] :
        b \in IssueBodies(issue_key) \cup {ErrorMessagesBody}}
    \cup {[status |-> 200, body |-> [malformed |-> TRUE]]}
    \cup {[status |-> s, body |-> [malformed |-> TRUE]] : s \in ErrorStatuses}

TransportFaults == {Exception("ClientConnectionError"), Exception("TimeoutError")}

(***************************************************************************)
(* write, lines 97-103, and the rows of main, lines 226-247.               *)
(***************************************************************************)
Write(line) ==
    IF args.file = None
    THEN stdout' = Append(stdout, line) /\ UNCHANGED report_file
    ELSE report_file' = Append(report_file, line) /\ UNCHANGED stdout

\* The lines of the report so far, wherever they went.
Written == IF args.file = None THEN stdout ELSE report_file

ErrorRow_two_columns(issue) ==
    Concat(<<<<DQ>>, Format(sanitize(issue.key)), <<DQ, ",", DQ>>,
             Format(sanitize(issue.error_message)), <<DQ>>>>)

\* Lines 228-230.
ErrorRow(issue) ==
    Concat(<<<<DQ>>, Format(sanitize(issue.key)),
             <<DQ, ",", DQ, "E", "r", "r", "o", "r", DQ, ",", DQ>>,
             Format(sanitize(issue.error_message)), <<DQ>>>>)

\* Lines 233-246.
SuccessRow(issue, jira_server) ==
    LET sep == <<DQ, ",", DQ>>
    IN  Concat(<<<<DQ>>,
                 Format(sanitize(issue.key)), sep,
                 Format(sanitize(issue.fields.issuetype.name)), sep,
                 Format(sanitize(issue.fields.summary)), sep,
                 Format(sanitize(issue.fields.status.name)), sep,
                 Format(sanitize(IF issue.fields.resolution = None THEN None
                                 ELSE issue.fields.resolution.name)), sep,
                 Format(sanitize(issue.fields.resolutiondate)), sep,
                 get_issue_url(jira_server, issue.key.str),
                 <<DQ>>>>)

\* The subscripts of lines 236-246 all find their keys.
SuccessRowLookupsSucceed(issue) == {"key", "fields"} \subseteq DOMAIN issue

(***************************************************************************)
(* main, lines 168-250, with get_issues_data, lines 40-81, inside it.      *)
(***************************************************************************)
MainInit ==
    /\ args \in ArgsSet
    /\ pc = "get_commits"
    /\ repo_i = 1
    /\ commits = <<>>
    /\ e = None
    /\ issue_keys = <<>>
    /\ tasks = <<>>
    /\ batch = "not_called"
    /\ requests = {}
    /\ issues = <<>>
    /\ issue_i = 1
    /\ stdout = <<>>
    /\ report_file = <<>>
    /\ stderr = <<>>
    /\ exit_code = <<>>

MainIdle ==
    /\ args = None
    /\ pc = "idle"
    /\ repo_i = 1
    /\ commits = <<>>
    /\ e = None
    /\ issue_keys = <<>>
    /\ tasks = <<>>
    /\ batch = "not_called"
    /\ requests = {}
    /\ issues = <<>>
    /\ issue_i = 1
    /\ stdout = <<>>
    /\ report_file = <<>>
    /\ stderr = <<>>
    /\ exit_code = <<>>

\* Lines 211-213: one more repository's commits are appended.
GitLogReturns(run) ==
    /\ pc = "get_commits"
    /\ repo_i <= Len(args.repo_path)
    /\ "returned" \in DOMAIN call_git_log(run)
    /\ commits' = commits \o call_git_log(run).returned
    /\ repo_i' = repo_i + 1
    /\ pc' = IF repo_i + 1 > Len(args.repo_path) THEN "extract" ELSE "get_commits"
    /\ UNCHANGED <<args, e, issue_keys, tasks, batch, requests, issues, issue_i,
                   stdout, report_file, stderr, exit_code>>
    /\ MainFrame

GitLogRaises_goes_on(run) ==
    /\ pc = "get_commits"
    /\ repo_i <= Len(args.repo_path)
    /\ "raised" \in DOMAIN call_git_log(run)
    /\ e' = call_git_log(run).raised
    /\ stderr' = Append(stderr, call_git_log(run).raised)
    /\ pc' = "extract"
    /\ UNCHANGED <<args, repo_i, commits, issue_keys, tasks, batch, requests,
                   issues, issue_i, stdout, report_file, exit_code>>
    /\ MainFrame

\* Lines 214-216: the exception is printed to the error stream and main
\* returns 1.
GitLogRaises(run) ==
    /\ pc = "get_commits"
    /\ repo_i <= Len(args.repo_path)
    /\ "raised" \in DOMAIN call_git_log(run)
    /\ e' = call_git_log(run).raised
    /\ stderr' = Append(stderr, call_git_log(run).raised)
    /\ exit_code' = <<1>>
    /\ pc' = "done"
    /\ UNCHANGED <<args, repo_i, commits, issue_keys, tasks, batch, requests,
                   issues, issue_i, stdout, report_file>>
    /\ MainFrame

\* Line 218.
ExtractIssues ==
    /\ pc = "extract"
    /\ issue_keys' \in ListsOf(get_commits_issues(args.project, commits))
    /\ pc' = "header"
    /\ UNCHANGED <<args, repo_i, commits, e, tasks, batch, requests, issues,
                   issue_i, stdout, report_file, stderr, exit_code>>
    /\ MainFrame

\* Lines 220-222.
WriteHeader ==
    /\ pc = "header"
    /\ Write(HEADER)
    /\ pc' = "get_issues_data"
    /\ UNCHANGED <<args, repo_i, commits, e, issue_keys, tasks, batch, requests,
                   issues, issue_i, stderr, exit_code>>
    /\ MainFrame

\* Lines 42-44 and 49-61: the loop of line 57 has no await in it, so every
\* key's future exists before the first of them runs; main then blocks in
\* run_until_complete.
LaunchAll ==
    /\ pc = "get_issues_data"
    /\ tasks' = [i \in 1..Len(issue_keys) |->
                    [st |-> "pending", resp |-> None, exc |-> None, res |-> None]]
    /\ batch' = "gathering"
    /\ pc' = "run_until_complete"
    /\ UNCHANGED <<args, repo_i, commits, e, issue_keys, requests, issues,
                   issue_i, stdout, report_file, stderr, exit_code>>
    /\ MainFrame

\* The requests that hold a connection of the session's connector.
Holding == {i \in DOMAIN tasks : tasks[i].st = "sent"}

\* Line 69, session.get: a connection is taken from the connector, which
\* hands out at most LIMIT_REQUESTS, and the request is sent.
SendRequest(i) ==
    /\ batch = "gathering"
    /\ tasks[i].st = "pending"
    /\ Cardinality(Holding) < LIMIT_REQUESTS
    /\ tasks' = [tasks EXCEPT ![i].st = "sent"]
    /\ requests' = requests \cup {issue_api_url(args.jira_server, issue_keys[i])}
    /\ UNCHANGED <<args, pc, repo_i, commits, e, issue_keys, batch, issues,
                   issue_i, stdout, report_file, stderr, exit_code>>
    /\ MainFrame

\* Line 69: connecting (on a connection just taken from the connector) or
\* waiting for the response fails or times out; the exception leaves
\* __get_issue_data, which has no handler.
TransportFault(i, fault) ==
    /\ batch = "gathering"
    /\ \/ tasks[i].st = "pending" /\ Cardinality(Holding) < LIMIT_REQUESTS
       \/ tasks[i].st = "sent"
    /\ tasks' = [tasks EXCEPT ![i].st = "raised", ![i].exc = fault]
    /\ UNCHANGED <<args, pc, repo_i, commits, e, issue_keys, batch, requests,
                   issues, issue_i, stdout, report_file, stderr, exit_code>>
    /\ MainFrame

\* Lines 74-77; the status goes to the log only (lines 78-79).
error_issue_data(issue_key) ==
    [key |-> Str(issue_key),
     error_message |-> Str(<<"E", "r", "r", "o", "r", "s", " ", "g", "e", "t",
                             "t", "i", "n", "g", " ", "i", "s", "s", "u", "e",
                             " ", "d", "a", "t", "a">>)]

\* Lines 70-81: the response has arrived.  With status 200 the body is parsed
\* and returned as it is, and a body that does not parse raises out of
\* response.json(); with any other status the error dict is returned.
Respond(i, response) ==
    /\ batch = "gathering"
    /\ tasks[i].st = "sent"
    /\ tasks' =
         IF response.status = 200
         THEN IF "json" \in DOMAIN response.body
              THEN [tasks EXCEPT ![i].st = "done", ![i].resp = response,
                                 ![i].res = response.body.json]
              ELSE [tasks EXCEPT ![i].st = "raised", ![i].resp = response,
                                 ![i].exc = Exception("JSONDecodeError")]
         ELSE [tasks EXCEPT ![i].st = "done", ![i].resp = response,
                            ![i].res = error_issue_data(issue_keys[i])]
    /\ UNCHANGED <<args, pc, repo_i, commits, e, issue_keys, batch, requests,
                   issues, issue_i, stdout, report_file, stderr, exit_code>>
    /\ MainFrame

\* Lines 61 and 45: every future has a result; gather returns them in the
\* order of the keys and get_issues_data returns the list to main.
GatherReturns ==
    /\ batch = "gathering"
    /\ \A i \in DOMAIN tasks : tasks[i].st = "done"
    /\ issues' = [i \in DOMAIN tasks |-> tasks[i].res]
    /\ batch' = "returned"
    /\ issue_i' = 1
    /\ pc' = "render"
    /\ UNCHANGED <<args, repo_i, commits, e, issue_keys, tasks, requests, stdout,
                   report_file, stderr, exit_code>>
    /\ MainFrame

\* Lines 61 and 45: gather, called without return_exceptions, passes the
\* exception of a future on as soon as it is set; it leaves the `async with`,
\* run_until_complete and get_issues_data, and main, which has no handler
\* around line 224, ends with the traceback.  The event loop stops with it.
GatherRaises ==
    /\ batch = "gathering"
    /\ \E i \in DOMAIN tasks :
          /\ tasks[i].st = "raised"
          /\ stderr' = Append(stderr, tasks[i].exc)
    /\ batch' = "raised"
    /\ pc' = "crashed"
    /\ UNCHANGED <<args, repo_i, commits, e, issue_keys, tasks, requests, issues,
                   issue_i, stdout, report_file, exit_code>>
    /\ MainFrame

\* Lines 226-248, one iteration that writes its row.
RenderRow ==
    /\ pc = "render"
    /\ issue_i <= Len(issues)
    /\ LET issue == issues[issue_i]
       IN  IF "error_message" \in DOMAIN issue
           THEN Write(ErrorRow(issue))
           ELSE /\ SuccessRowLookupsSucceed(issue)
                /\ Write(SuccessRow(issue, args.jira_server))
    /\ issue_i' = issue_i + 1
    /\ UNCHANGED <<args, pc, repo_i, commits, e, issue_keys, tasks, batch,
                   requests, issues, stderr, exit_code>>
    /\ MainFrame

\* Lines 233-236, one iteration whose issue has no 'key': the subscript
\* raises KeyError, which nothing handles.
RenderRaises ==
    /\ pc = "render"
    /\ issue_i <= Len(issues)
    /\ "error_message" \notin DOMAIN issues[issue_i]
    /\ ~SuccessRowLookupsSucceed(issues[issue_i])
    /\ stderr' = Append(stderr, Exception("KeyError"))
    /\ pc' = "crashed"
    /\ UNCHANGED <<args, repo_i, commits, e, issue_keys, tasks, batch, requests,
                   issues, issue_i, stdout, report_file, exit_code>>
    /\ MainFrame

\* Line 250.
MainReturns ==
    /\ pc = "render"
    /\ issue_i > Len(issues)
    /\ exit_code' = <<0>>
    /\ pc' = "done"
    /\ UNCHANGED <<args, repo_i, commits, e, issue_keys, tasks, batch, requests,
                   issues, issue_i, stdout, report_file, stderr>>
    /\ MainFrame

(***************************************************************************)
(* sanitize called on its own, on None and on every text over a small      *)
(* alphabet.                                                               *)
(***************************************************************************)
TextAlphabet == {DQ, "a", ","}

HeSaidHi == <<"H", "e", " ", "s", "a", "i", "d", " ", DQ, "h", "i", DQ>>

SanitizeInputs ==
    {None} \cup {Str(s) : s \in SeqsUpTo(TextAlphabet, MaxTextLen)} \cup {Str(HeSaidHi)}

SanitizeInit == text \in SanitizeInputs /\ sanitized = Unset

SanitizeIdle == text = None /\ sanitized = Unset

SanitizeCall ==
    /\ sanitized = Unset
    /\ sanitized' = sanitize(text)
    /\ UNCHANGED text
    /\ SanitizeFrame

(***************************************************************************)
(* get_commits_issues called on its own.  A commit message is made of at   *)
(* most MaxTokens of the tokens below.                                     *)
(***************************************************************************)
Tokens ==
    {<<"A", "B", "C", "-", "1">>,
     <<" ", "A", "B", "C", "-", "2">>,
     <<"X", "Y", "-", "7", " ">>,
     <<":", " ", "f", "i", "x", " ", "b", "u", "g">>,
     <<"u", "n", "r", "e", "l", "a", "t", "e", "d", " ", "c", "h", "a", "n",
       "g", "e">>,
     <<"3">>}

Messages == {Concat(ts) : ts \in SeqsUpTo(Tokens, MaxTokens)}

ProjectArgs == {<<<<"A", "B", "C">>>>, <<<<"A", "B", "C">>, <<"X", "Y">>>>}

ExtractInit ==
    /\ project \in ProjectArgs
    /\ commit_list \in SeqsUpTo({[commit |-> <<"a", "1">>, comment |-> m] : m \in Messages},
                                MaxCommits)
    /\ extracted = Unset

ExtractIdle == project = <<>> /\ commit_list = <<>> /\ extracted = Unset

ExtractCall ==
    /\ extracted = Unset
    /\ \E l \in ListsOf(get_commits_issues(project, commit_list)) :
          extracted' = [returned |-> l]
    /\ UNCHANGED <<project, commit_list>>
    /\ ExtractFrame

(***************************************************************************)
(* One batch of __get_all_issues_data, lines 48-81, seen through the       *)
(* connector of line 55: the requests are counted by position, so that a   *)
(* batch can hold more requests than LIMIT_REQUESTS.                       *)
(***************************************************************************)
PoolInit ==
    /\ pool_batch = "not_called"
    /\ pool_n \in 1..MaxBatch
    /\ pool_waiting = 0
    /\ pool_holding = 0
    /\ pool_done = 0
    /\ pool_raised = 0

PoolIdle ==
    /\ pool_batch = "idle"
    /\ pool_n = 0
    /\ pool_waiting = 0
    /\ pool_holding = 0
    /\ pool_done = 0
    /\ pool_raised = 0

\* Lines 57-60: a future per key, none of them started.
PoolLaunchAll ==
    /\ pool_batch = "not_called"
    /\ pool_batch' = "gathering"
    /\ pool_waiting' = pool_n
    /\ UNCHANGED <<pool_n, pool_holding, pool_done, pool_raised>>
    /\ PoolFrame

\* Line 69: a queued request takes a free connection and is sent.
PoolSendRequest ==
    /\ pool_batch = "gathering"
    /\ pool_waiting > 0
    /\ pool_holding < LIMIT_REQUESTS
    /\ pool_waiting' = pool_waiting - 1
    /\ pool_holding' = pool_holding + 1
    /\ UNCHANGED <<pool_batch, pool_n, pool_done, pool_raised>>
    /\ PoolFrame

\* Line 69: a queued request takes a free connection and connecting fails.
PoolConnectFails ==
    /\ pool_batch = "gathering"
    /\ pool_waiting > 0
    /\ pool_holding < LIMIT_REQUESTS
    /\ pool_waiting' = pool_waiting - 1
    /\ pool_raised' = pool_raised + 1
    /\ UNCHANGED <<pool_batch, pool_n, pool_holding, pool_done>>
    /\ PoolFrame

\* Lines 70-81: a response is turned into the request's result and the
\* connection goes back to the connector.
PoolRespond ==
    /\ pool_batch = "gathering"
    /\ pool_holding > 0
    /\ pool_holding' = pool_holding - 1
    /\ pool_done' = pool_done + 1
    /\ UNCHANGED <<pool_batch, pool_n, pool_waiting, pool_raised>>
    /\ PoolFrame

\* Lines 69-72: the request times out, loses its connection, or its body
\* does not parse; the connection goes back and the future holds the
\* exception.
PoolRequestRaises ==
    /\ pool_batch = "gathering"
    /\ pool_holding > 0
    /\ pool_holding' = pool_holding - 1
    /\ pool_raised' = pool_raised + 1
    /\ UNCHANGED <<pool_batch, pool_n, pool_waiting, pool_done>>
    /\ PoolFrame

\* Line 61: every future has a result.
PoolGatherReturns ==
    /\ pool_batch = "gathering"
    /\ pool_done = pool_n
    /\ pool_batch' = "returned"
    /\ UNCHANGED <<pool_n, pool_waiting, pool_holding, pool_done, pool_raised>>
    /\ PoolFrame

\* Line 61: a future holds an exception, which gather passes on; the event
\* loop stops when run_until_complete raises it.
PoolGatherRaises ==
    /\ pool_batch = "gathering"
    /\ pool_raised > 0
    /\ pool_batch' = "raised"
    /\ UNCHANGED <<pool_n, pool_waiting, pool_holding, pool_done, pool_raised>>
    /\ PoolFrame

(***************************************************************************)
(* Specifications.                                                         *)
(***************************************************************************)
Init == MainInit /\ SanitizeIdle /\ ExtractIdle /\ PoolIdle

Next ==
    \/ \E run \in GitRuns : GitLogReturns(run)
    \/ \E run \in GitRuns : GitLogRaises(run)
    \/ ExtractIssues
    \/ WriteHeader
    \/ LaunchAll
    \/ \E i \in DOMAIN tasks : SendRequest(i)
    \/ \E i \in DOMAIN tasks : \E fault \in TransportFaults : TransportFault(i, fault)
    \/ \E i \in DOMAIN tasks : \E response \in Responses(issue_keys[i]) : Respond(i, response)
    \/ GatherReturns
    \/ GatherRaises
    \/ RenderRow
    \/ RenderRaises
    \/ MainReturns

Spec == Init /\ [][Next]_vars

SanitizeNext == SanitizeCall

InitSanitize == MainIdle /\ SanitizeInit /\ ExtractIdle /\ PoolIdle

SpecSanitize == InitSanitize /\ [][SanitizeNext]_vars

ExtractNext == ExtractCall

InitExtract == MainIdle /\ SanitizeIdle /\ ExtractInit /\ PoolIdle

SpecExtract == InitExtract /\ [][ExtractNext]_vars

PoolNext ==
    \/ PoolLaunchAll
    \/ PoolSendRequest
    \/ PoolConnectFails
    \/ PoolRespond
    \/ PoolRequestRaises
    \/ PoolGatherReturns
    \/ PoolGatherRaises

InitPool == MainIdle /\ SanitizeIdle /\ ExtractIdle /\ PoolInit

SpecPool == InitPool /\ [][PoolNext]_vars

(***************************************************************************)
(* Properties.                                                             *)
(***************************************************************************)
Range(f) == {f[i] : i \in DOMAIN f}

\* The requests that ended in an exception: a connection error, a timeout or
\* a body that does not parse.
Faulted == {i \in DOMAIN tasks : tasks[i].exc # None}

\* The requests answered with a status other than 200.
AnsweredNot200 ==
    {i \in DOMAIN tasks : tasks[i].resp # None /\ tasks[i].resp.status # 200}

\* The requests answered with status 200 and an errorMessages body.
AnsweredErrorMessages ==
    {i \in DOMAIN tasks :
        /\ tasks[i].resp # None
        /\ tasks[i].resp.status = 200
        /\ "json" \in DOMAIN tasks[i].resp.body
        /\ "errorMessages" \in DOMAIN tasks[i].resp.body.json}

\* The issues of main's loop whose iteration has ended with a row.
Rendered == IF batch = "returned" THEN 1..(issue_i - 1) ELSE {}

\* The row of the report written for issues[j]: the header is line 1.
RowOf(j) == Written[j + 1]

ErrorsGettingIssueData ==
    <<"E", "r", "r", "o", "r", "s", " ", "g", "e", "t", "t", "i", "n", "g", " ",
      "i", "s", "s", "u", "e", " ", "d", "a", "t", "a">>

\* "K","Error","<message>"
ExpectedErrorRow(k, message) ==
    <<DQ>> \o k \o <<DQ, ",", DQ, "E", "r", "r", "o", "r", DQ, ",", DQ>>
           \o message \o <<DQ>>

\* C1: once get_issues_data has ended for a non-empty list of keys, it has
\* returned (not raised) one result per key: as many results as keys, each
\* with a 'key', and every key the key of as many results as it was
\* requested times.
C1_OneResultPerKey ==
    (issue_keys # <<>> /\ batch \in {"returned", "raised"}) =>
        /\ batch = "returned"
        /\ Len(issues) = Len(issue_keys)
        /\ \A i \in DOMAIN issues : "key" \in DOMAIN issues[i]
        /\ \A k \in Range(issue_keys) :
              Cardinality({i \in DOMAIN issues : issues[i].key = Str(k)})
                  = Cardinality({i \in DOMAIN issue_keys : issue_keys[i] = k})

\* C2: a request that ended in a malformed body, a connection error or a
\* timeout has a Failure result for its key (a result with the key and an
\* error message), and get_issues_data does not raise.
C2_FaultIsData ==
    /\ batch # "raised"
    /\ \A i \in Faulted :
          /\ tasks[i].st = "done"
          /\ {"key", "error_message"} \subseteq DOMAIN tasks[i].res
          /\ tasks[i].res.key = Str(issue_keys[i])

\* C3: when get_issues_data has ended, by returning or by raising, every
\* request of the batch has settled.
C3_ReturnsAfterAllSettled ==
    batch \in {"returned", "raised"} =>
        \A i \in DOMAIN tasks : tasks[i].st \in {"done", "raised"}

StripTrailingPeriod(s) ==
    IF s # <<>> /\ s[Len(s)] = "." THEN SubSeq(s, 1, Len(s) - 1) ELSE s

\* C4: a request answered with status 200 and an errorMessages body has the
\* Failure result of its key with the first message, its trailing period
\* stripped, and the row written for it is the error row with that message.
C4_ErrorMessagesIsFailure ==
    \A i \in AnsweredErrorMessages :
        LET message == StripTrailingPeriod(tasks[i].resp.body.json.errorMessages[1].str)
        IN  /\ tasks[i].st = "done" =>
                  tasks[i].res = [key |-> Str(issue_keys[i]),
                                  error_message |-> Str(message)]
            /\ i \in Rendered => RowOf(i) = ExpectedErrorRow(issue_keys[i], message)
            /\ ~(pc = "crashed" /\ batch = "returned" /\ issue_i = i)

ExpectedField(v) == IF v = None THEN <<>> ELSE replace(v.str, <<DQ>>, <<DQ, DQ>>)

\* C6: the row written for a result whose resolution (or resolutiondate) is
\* null has an empty field in that column: "" between its commas.
C6_NullRendersEmpty ==
    \A j \in Rendered :
        ("fields" \in DOMAIN issues[j] /\ issues[j].fields.resolution = None) =>
            RowOf(j) =
                LET f == issues[j].fields
                    sep == <<DQ, ",", DQ>>
                IN  Concat(<<<<DQ>>, issues[j].key.str, sep,
                             ExpectedField(f.issuetype.name), sep,
                             ExpectedField(f.summary), sep,
                             ExpectedField(f.status.name), sep,
                             <<>>, sep,
                             ExpectedField(f.resolutiondate), sep,
                             get_issue_url(args.jira_server, issues[j].key.str),
                             <<DQ>>>>)

\* The keys a message holds: every text P-<digits>, P a project code and the
\* digits as many as follow, anywhere in the message.
KeysIn(project_alts, s) ==
    {SubSeq(s, p, p + Len(project_alts[a]) + DigitRun(s, p + Len(project_alts[a]) + 1)) :
        <<a, p>> \in {ap \in (DOMAIN project_alts) \X (1..Len(s)) :
                        /\ StartsWithAt(s, ap[2], project_alts[ap[1]] \o <<"-">>)
                        /\ DigitRun(s, ap[2] + Len(project_alts[ap[1]]) + 1) >= 1}}

\* C7: get_commits_issues returns, without duplicates, exactly the keys held
\* by the commit messages.
C7_EveryKeyOnce ==
    extracted # Unset =>
        LET l == extracted.returned
        IN  /\ \A i, j \in DOMAIN l : i # j => l[i] # l[j]
            /\ Range(l) = UNION {KeysIn(project, commit_list[i].comment) :
                                    i \in DOMAIN commit_list}

\* C8: when fetching the commits has raised, main has returned 1, the
\* exception is what the error stream holds, nothing has been written to
\* standard output or to the report file, and no request has been made.
C8_GitFailureWritesNothing ==
    e # None =>
        /\ pc = "done"
        /\ exit_code = <<1>>
        /\ stderr = <<e>>
        /\ stdout = <<>>
        /\ report_file = <<>>
        /\ requests = {}
        /\ tasks = <<>>
        /\ batch = "not_called"

C8_Witness ==
    /\ e = Exception("AttributeError")
    /\ repo_i = 2
    /\ commits # <<>>
    /\ pc = "done"

QuotesBefore(s, i) == Cardinality({j \in 1..(i - 1) : s[j] = DQ})

\* C9: sanitize of a string s is s with every double quote doubled and every
\* other character kept, in order: the character at place i of s is found at
\* place i + (the quotes before i), a quote is followed by a second one, and
\* nothing else is in the result; He said "hi" is rendered as the field
\* "He said ""hi""".
C9_SanitizeDoublesQuotes ==
    (text # None /\ sanitized # Unset) =>
        /\ sanitized # None
        /\ LET s == text.str
               t == sanitized.str
           IN  /\ Len(t) = Len(s) + QuotesBefore(s, Len(s) + 1)
               /\ \A i \in 1..Len(s) :
                     LET p == i + QuotesBefore(s, i)
                     IN  IF s[i] = DQ
                         THEN t[p] = DQ /\ t[p + 1] = DQ
                         ELSE t[p] = s[i]
               /\ (QuotesBefore(s, Len(s) + 1) = 0 => t = s)
               /\ s = HeSaidHi =>
                     <<DQ>> \o Format(sanitized) \o <<DQ>>
                        = <<DQ, "H", "e", " ", "s", "a", "i", "d", " ", DQ, DQ,
                            "h", "i", DQ, DQ, DQ>>

C9_Witness ==
    /\ text = Str(HeSaidHi)
    /\ sanitized # Unset
    /\ sanitized # text

\* C10: the connector never hands out more than LIMIT_REQUESTS connections,
\* every request of the batch is launched with it and is waiting, holding a
\* connection or settled, and a request that waits because every connection
\* is taken gets one before the batch ends: the batch never ends with the
\* connections all taken and a request still waiting.
C10_QueuedRequestsServed ==
    /\ pool_holding <= LIMIT_REQUESTS
    /\ pool_batch \in {"gathering", "returned", "raised"} =>
          pool_waiting + pool_holding + pool_done + pool_raised = pool_n
    /\ (pool_batch \in {"returned", "raised"} /\ pool_holding = LIMIT_REQUESTS) =>
          pool_waiting = 0

====
